---- MODULE Spec2Model ----
(***************************************************************************)
(* A model of the object tree of src/dreammaker/objtree.rs: the graph of   *)
(* type nodes with its path index, the three builder entry points          *)
(* (add_entry, add_var, add_proc), the parent-type pass of finalization    *)
(* and the read-only navigation and lookup operations.                     *)
(*                                                                         *)
(* Representation.                                                         *)
(*  - A Rust String is a sequence of tokens: the token "/" and identifier  *)
(*    tokens.  "/obj/item" is <<"/", "obj", "/", "item">>, "" is <<>>.     *)
(*    Identifiers never contain '/', so format!, rfind('/') and slicing    *)
(*    act on tokens exactly as they act on the bytes.                      *)
(*  - Option<T> is a sequence of length 0 (None) or 1 (Some).              *)
(*  - A NodeIndex is a natural number; node i is graph.nodes[i + 1].       *)
(*  - A LinkedHashMap is the sequence of its [key, val] entries in         *)
(*    insertion order.                                                     *)
(*  - A Location is a natural number.  The k-th builder call is made with  *)
(*    location k: the code never compares locations, so distinct locations *)
(*    are the most general input.                                          *)
(*  - A VarSuffix is the sequence of its dimensions, each without a size   *)
(*    (None) or with one (Some): <<>> is the default suffix, `[]` is       *)
(*    <<None>> and `[10]` is <<Some("10")>>.                               *)
(*  - Documentation blocks and proc parameters and bodies are payload no   *)
(*    operation of this file reads; they are left out of the records.      *)
(*    being_evaluated is false whenever no evaluation is running and is    *)
(*    left out as well.                                                    *)
(***************************************************************************)
EXTENDS Integers, Sequences, FiniteSets, TLC

VARIABLES graph, types, errors, calls, finalized

vars == <<graph, types, errors, calls, finalized>>

----------------------------------------------------------------------------
(* Bounds of the model *)

\* The number of builder calls in one run.
MaxCalls == 3

\* Specificity numbers are drawn from 1..MaxSpec.
MaxSpec == 2

\* The longest (operator, name) sequence handed to navigate_path.
MaxPieces == 2

\* The longest segment sequence looked up with type_by_path.
MaxSegments == 3

----------------------------------------------------------------------------
(* Options, strings, maps *)

None == <<>>

Some(x) == <<x>>

\* const BAD_NODE_INDEX: usize = usize::MAX, the largest index there is.
BAD_NODE_INDEX == 2147483647

\* LinkedHashMap::contains_key
map_has(m, k) == \E i \in 1..Len(m) : m[i].key = k

\* LinkedHashMap::get
map_get(m, k) == IF map_has(m, k) THEN Some(m[CHOOSE i \in 1..Len(m) : m[i].key = k].val) ELSE None

\* Writing through the &mut reference an entry gave.
map_set(m, k, v) == [i \in 1..Len(m) |-> IF m[i].key = k THEN [key |-> k, val |-> v] ELSE m[i]]

\* Mutant of entry_or_insert_with: LinkedHashMap::insert, which replaces the
\* value of an occupied entry.
entry_insert(m, k, v) == IF map_has(m, k) THEN map_set(m, k, v) ELSE Append(m, [key |-> k, val |-> v])

\* LinkedHashMap::entry(k).or_insert_with(|| v): the entry is created only
\* when the key is vacant; an occupied entry is left as it is.
entry_or_insert_with(m, k, v) == IF map_has(m, k) THEN m ELSE Append(m, [key |-> k, val |-> v])

\* str::rfind('/'): the 0-based position of the last '/', if any.
rfind_slash(s) == IF \E i \in 1..Len(s) : s[i] = "/" THEN Some((CHOOSE i \in 1..Len(s) : s[i] = "/" /\ \A j \in (i+1)..Len(s) : s[j] # "/") - 1) ELSE None

----------------------------------------------------------------------------
(* Declaration classifier *)

is_var_decl(s) == s = "var"

\* Mutant of is_proc_decl: verb is not a keyword.
is_proc_decl_proc_only(s) == s = "proc"

is_proc_decl(s) == s = "proc" \/ s = "verb"

is_decl(s) == is_var_decl(s) \/ is_proc_decl(s)

----------------------------------------------------------------------------
(* The graph (petgraph::Graph<Type, ()>) *)

\* Graph::node_weight
node_weight(g, idx) == IF idx \in 0..(Len(g.nodes) - 1) THEN Some(g.nodes[idx + 1]) ELSE None

\* The node at a valid index: node_weight(idx).unwrap()
Node(g, idx) == g.nodes[idx + 1]

\* Graph::neighbors(a): the targets of a's outgoing edges.  petgraph links a
\* new edge at the head of its source's edge list, so the walk yields the
\* most recently added edge first.
RECURSIVE neighbors_from(_, _, _)
neighbors_from(g, a, i) == IF i = 0 THEN <<>> ELSE (IF g.edges[i][1] = a THEN <<g.edges[i][2]>> ELSE <<>>) \o neighbors_from(g, a, i - 1)

neighbors(g, a) == neighbors_from(g, a, Len(g.edges))

\* Graph::neighbors_directed(a, Incoming): the sources of a's incoming edges.
RECURSIVE incoming_from(_, _, _)
incoming_from(g, a, i) == IF i = 0 THEN <<>> ELSE (IF g.edges[i][2] = a THEN <<g.edges[i][1]>> ELSE <<>>) \o incoming_from(g, a, i - 1)

neighbors_incoming(g, a) == incoming_from(g, a, Len(g.edges))

\* The first node of a neighbor walk whose name is `name`.
RECURSIVE first_named(_, _, _)
first_named(g, ns, name) == IF ns = <<>> THEN None ELSE IF Node(g, Head(ns)).name = name THEN Some(Head(ns)) ELSE first_named(g, Tail(ns), name)

----------------------------------------------------------------------------
(* Building: subtype_or_add, get_from_path *)

\* Mutant of takes_over: every later occurrence takes the location over.
takes_over_always(stored, len) == TRUE

\* The test that lets a later occurrence take over a node's location.
takes_over(stored, len) == stored > len

\* Mutant of child_path: the parent's path is left out.
child_path_flat(parent_path, child_name) == <<"/", child_name>>

\* format!("{}/{}", parent.path, child)
child_path(parent_path, child_name) == parent_path \o <<"/", child_name>>

\* A freshly created Type.
new_type(child_name, path, location, len) == [name |-> child_name, path |-> path, vars |-> <<>>, procs |-> <<>>, location |-> location, location_specificity |-> len, parent_type |-> BAD_NODE_INDEX]

\* BTreeMap::insert
types_insert(ts, path, node) == (path :> node) @@ ts

\* ObjectTree::subtype_or_add: the child of `parent` named `child_name`,
\* created when there is none.  Returns the tree and the child's index.
subtype_or_add(self, location, parent, child_name, len) ==
    LET found == first_named(self.graph, neighbors(self.graph, parent), child_name)
    IN  IF found # None
        THEN LET target == found[1]
                 node == Node(self.graph, target)
                 upd == IF takes_over(node.location_specificity, len)
                        THEN [node EXCEPT !.location_specificity = len, !.location = location]
                        ELSE node
             IN  [self |-> [self EXCEPT !.graph.nodes[target + 1] = upd], node |-> target]
        ELSE LET path == child_path(Node(self.graph, parent).path, child_name)
                 node == Len(self.graph.nodes)
                 g == [nodes |-> Append(self.graph.nodes, new_type(child_name, path, location, len)),
                       edges |-> Append(self.graph.edges, <<parent, node>>)]
             IN  [self |-> [graph |-> g, types |-> types_insert(self.types, path, node)], node |-> node]

\* The for loop of get_from_path: `last` is the segment in hand, `rest` the
\* segments the iterator still holds.
RECURSIVE get_from_path_loop(_, _, _, _, _, _)
get_from_path_loop(self, location, current, last, rest, len) ==
    IF rest = <<>>
    THEN [ok |-> TRUE, err |-> "", self |-> self, current |-> current, last |-> last, rest |-> rest]
    ELSE LET r == subtype_or_add(self, location, current, last, len)
         IN  IF is_decl(Head(rest))
             THEN [ok |-> TRUE, err |-> "", self |-> r.self, current |-> r.node, last |-> Head(rest), rest |-> Tail(rest)]
             ELSE get_from_path_loop(r.self, location, r.node, Head(rest), Tail(rest), len)

\* ObjectTree::get_from_path: walks the path from the root, creating nodes,
\* up to its last segment or its first declaration keyword.
get_from_path(self, location, path, len) ==
    IF path = <<>>
    THEN [ok |-> FALSE, err |-> "cannot register root path", self |-> self, current |-> 0, last |-> "", rest |-> <<>>]
    ELSE IF is_decl(Head(path))
    THEN [ok |-> TRUE, err |-> "", self |-> self, current |-> 0, last |-> Head(path), rest |-> Tail(path)]
    ELSE get_from_path_loop(self, location, 0, Head(path), Tail(path), len)

----------------------------------------------------------------------------
(* Building: register_var, register_proc and the three entry points *)

\* The while loop of register_var over the qualifiers after `var`.  `named`
\* is FALSE when the segments run out inside the header.
RECURSIVE skip_qualifiers(_, _, _)
skip_qualifiers(prev, rest, flags) ==
    IF prev = "global" \/ prev = "static" \/ prev = "tmp" \/ prev = "const"
    THEN IF rest # <<>>
         THEN skip_qualifiers(Head(rest), Tail(rest),
                  [is_static |-> flags.is_static \/ prev = "global" \/ prev = "static",
                   is_const |-> flags.is_const \/ prev = "const",
                   is_tmp |-> flags.is_tmp \/ prev = "tmp"])
         ELSE [named |-> FALSE, prev |-> prev, rest |-> rest, flags |-> flags]
    ELSE [named |-> TRUE, prev |-> prev, rest |-> rest, flags |-> flags]

\* The header of register_var: (is_declaration, flags, prev, rest) once the
\* `var` keyword and the qualifiers are consumed.
var_header(prev, rest) ==
    LET noflags == [is_static |-> FALSE, is_const |-> FALSE, is_tmp |-> FALSE]
    IN  IF is_var_decl(prev)
        THEN IF rest = <<>>
             THEN [named |-> FALSE, is_declaration |-> TRUE, prev |-> prev, rest |-> rest, flags |-> noflags]
             ELSE LET q == skip_qualifiers(Head(rest), Tail(rest), noflags)
                  IN  [named |-> q.named, is_declaration |-> TRUE, prev |-> q.prev, rest |-> q.rest, flags |-> q.flags]
        ELSE [named |-> TRUE, is_declaration |-> FALSE, prev |-> prev, rest |-> rest, flags |-> noflags]

\* The expression `new /list(sizes)` a sized suffix stands for.  It is not
\* a constant: its evaluation fails.
new_list_expression == [kind |-> "invalid", str |-> <<>>, path |-> <<>>, vars |-> <<>>]

\* VarSuffix::into_initializer: no initializer without a sized dimension,
\* else the creation of a list of those sizes.
into_initializer(suffix) == IF \A i \in 1..Len(suffix) : suffix[i] = None THEN None ELSE Some(new_list_expression)

\* VarType::suffix: a var with dimensions is a list.
var_type_suffix(type_path, suffix) == IF suffix = <<>> THEN type_path ELSE <<"list">> \o type_path

\* The TypeVar register_var inserts for a vacant name.
new_type_var(location, is_declaration, flags, type_path, suffix) ==
    [value |-> [location |-> location, expression |-> into_initializer(suffix), constant |-> None],
     declaration |-> IF is_declaration
                     THEN Some([var_type |-> [is_static |-> flags.is_static, is_const |-> flags.is_const, is_tmp |-> flags.is_tmp, type_path |-> type_path],
                                location |-> location])
                     ELSE None]

\* ObjectTree::register_var.  kind is "some" (Ok(Some(slot)), the slot being
\* vars[name] of node `parent`), "none" (Ok(None)) or "err".
register_var(self, location, parent, prev, rest, suffix) ==
    LET h == var_header(prev, rest)
        all == <<h.prev>> \o h.rest
        type_path == var_type_suffix(SubSeq(all, 1, Len(all) - 1), suffix)
        name == all[Len(all)]
        node == Node(self.graph, parent)
        slot == new_type_var(location, h.is_declaration, h.flags, type_path, suffix)
    IN  IF ~h.named
        THEN [kind |-> "none", err |-> "", self |-> self, name |-> ""]
        ELSE IF ~is_var_decl(prev) /\ is_proc_decl(prev)
        THEN [kind |-> "err", err |-> "proc looks like a var", self |-> self, name |-> ""]
        ELSE [kind |-> "some", err |-> "",
              self |-> [self EXCEPT !.graph.nodes[parent + 1].vars = entry_or_insert_with(node.vars, name, slot)],
              name |-> name]

\* The declaration a procedure slot keeps: the first one that is given.
keep_declaration(old, is_verb, location) == IF old = None THEN (IF is_verb = None THEN None ELSE Some([location |-> location, is_verb |-> is_verb[1]])) ELSE old

\* ObjectTree::register_proc: appends a ProcValue to the slot `name` of node
\* `parent`; returns the tree and the index of the new value.
register_proc(self, location, parent, name, is_verb) ==
    LET node == Node(self.graph, parent)
        procs0 == entry_or_insert_with(node.procs, name, [value |-> <<>>, declaration |-> None])
        proc == map_get(procs0, name)[1]
        len == Len(proc.value)
        proc1 == [value |-> Append(proc.value, [location |-> location]),
                  declaration |-> keep_declaration(proc.declaration, is_verb, location)]
    IN  [ok |-> TRUE, err |-> "", idx |-> len,
         self |-> [self EXCEPT !.graph.nodes[parent + 1].procs = map_set(procs0, name, proc1)]]

\* ObjectTree::add_entry
add_entry(self, location, path, len, suffix) ==
    LET g == get_from_path(self, location, path, len)
    IN  IF ~g.ok
        THEN [ok |-> FALSE, err |-> g.err, idx |-> 0, self |-> g.self]
        ELSE IF is_var_decl(g.last)
        THEN LET r == register_var(g.self, location, g.current, "var", g.rest, suffix)
             IN  [ok |-> r.kind # "err", err |-> r.err, idx |-> 0, self |-> r.self]
        ELSE IF is_proc_decl(g.last)
        THEN [ok |-> TRUE, err |-> "", idx |-> 0, self |-> g.self]
        ELSE [ok |-> TRUE, err |-> "", idx |-> 0, self |-> subtype_or_add(g.self, location, g.current, g.last, len).self]

\* The two writes add_var makes through the slot register_var returned.
set_value(slot, location, expr) == [slot EXCEPT !.value.location = location, !.value.expression = Some(expr)]

\* ObjectTree::add_var
add_var(self, location, path, len, expr, suffix) ==
    LET g == get_from_path(self, location, path, len)
    IN  IF ~g.ok
        THEN [ok |-> FALSE, err |-> g.err, idx |-> 0, self |-> g.self]
        ELSE LET r == register_var(g.self, location, g.current, g.last, g.rest, suffix)
                 vs == Node(r.self.graph, g.current).vars
             IN  IF r.kind = "err"
                 THEN [ok |-> FALSE, err |-> r.err, idx |-> 0, self |-> r.self]
                 ELSE IF r.kind = "none"
                 THEN [ok |-> FALSE, err |-> "var must have a name", idx |-> 0, self |-> r.self]
                 ELSE [ok |-> TRUE, err |-> "", idx |-> 0,
                       self |-> [r.self EXCEPT !.graph.nodes[g.current + 1].vars = map_set(vs, r.name, set_value(map_get(vs, r.name)[1], location, expr))]]

\* ObjectTree::add_proc
add_proc(self, location, path, len) ==
    LET g == get_from_path(self, location, path, len)
    IN  IF ~g.ok
        THEN [ok |-> FALSE, err |-> g.err, idx |-> 0, self |-> g.self]
        ELSE IF is_proc_decl(g.last)
        THEN IF g.rest = <<>>
             THEN [ok |-> FALSE, err |-> "proc must have a name", idx |-> 0, self |-> g.self]
             ELSE IF Tail(g.rest) # <<>>
             THEN [ok |-> FALSE, err |-> "proc name must be a single identifier", idx |-> 0, self |-> g.self]
             ELSE register_proc(g.self, location, g.current, Head(g.rest), Some(g.last = "verb"))
        ELSE IF is_var_decl(g.last)
        THEN [ok |-> FALSE, err |-> "var looks like a proc", idx |-> 0, self |-> g.self]
        ELSE IF g.rest # <<>>
        THEN [ok |-> FALSE, err |-> "proc name must be a single identifier", idx |-> 0, self |-> g.self]
        ELSE register_proc(g.self, location, g.current, g.last, None)

----------------------------------------------------------------------------
(* Access *)

\* ObjectTree::root
root == 0

\* ObjectTree::find: the index entry of a path string.
find(self, path) == IF path \in DOMAIN self.types THEN Some(self.types[path]) ELSE None

\* Type::is_root
is_root(ty) == ty.path = <<>>

\* Type::parent_type: the stored index, None for the sentinel.
stored_parent_type(ty) == IF ty.parent_type = BAD_NODE_INDEX THEN None ELSE Some(ty.parent_type)

\* TypeRef::parent_type and ObjectTree::parent_of: the stored index when it
\* is the index of a node.
parent_type(self, idx) == IF node_weight(self.graph, Node(self.graph, idx).parent_type) # None THEN Some(Node(self.graph, idx).parent_type) ELSE None

\* TypeRef::parent_path: the source of the first incoming edge.
parent_path(self, idx) == LET ins == neighbors_incoming(self.graph, idx) IN IF ins = <<>> THEN None ELSE Some(Head(ins))

\* TypeRef::child
child(self, idx, name) == first_named(self.graph, neighbors(self.graph, idx), name)

\* TypeRef::children
children(self, idx) == neighbors(self.graph, idx)

\* Mutant of stops_at_list: lookups under list/ are as any other.
stops_at_list_never(each, first) == FALSE

\* The test of type_by_path_approx that ends a lookup under list/.
stops_at_list(each, first) == each = "list" /\ first

\* The outer loop of type_by_path_approx; `path` is what is left of the
\* segments.
RECURSIVE type_by_path_approx_loop(_, _, _, _)
type_by_path_approx_loop(self, current, first, path) ==
    IF path = <<>> THEN [exact |-> TRUE, ty |-> current]
    ELSE LET found == first_named(self.graph, neighbors(self.graph, current), Head(path))
         IN  IF found = None THEN [exact |-> FALSE, ty |-> current]
             ELSE IF stops_at_list(Head(path), first) THEN [exact |-> TRUE, ty |-> found[1]]
             ELSE type_by_path_approx_loop(self, found[1], FALSE, Tail(path))

\* ObjectTree::type_by_path_approx
type_by_path_approx(self, path) == type_by_path_approx_loop(self, 0, TRUE, path)

\* ObjectTree::type_by_path
type_by_path(self, path) == LET r == type_by_path_approx(self, path) IN IF r.exact THEN Some(r.ty) ELSE None

----------------------------------------------------------------------------
(* Finalization: assign_parent_types *)

\* Expression::simple_evaluate, for the expressions of the model: a string
\* literal and a path literal evaluate to themselves, a number to a number,
\* and an expression that is not constant fails.
simple_evaluate(expr) ==
    IF expr.kind = "invalid"
    THEN [ok |-> FALSE, kind |-> "", str |-> <<>>, path |-> <<>>, vars |-> <<>>]
    ELSE [ok |-> TRUE, kind |-> expr.kind, str |-> expr.str, path |-> expr.path, vars |-> expr.vars]

\* The loop over a prefab's pieces: "/" and the piece, for each piece.
RECURSIVE prefab_to_path(_)
prefab_to_path(pieces) == IF pieces = <<>> THEN <<>> ELSE <<"/", Head(pieces)>> \o prefab_to_path(Tail(pieces))

\* Mutant of lexical_default: a top-level path is cut like any other, which
\* leaves the empty path of the root.
lexical_default_cut(path) == SubSeq(path, 1, rfind_slash(path)[1])

\* The match on path.rfind('/'): "/datum" for a top-level path, else the
\* path without its last segment.
lexical_default(path) == LET idx == rfind_slash(path)[1] IN IF idx = 0 THEN <<"/", "datum">> ELSE SubSeq(path, 1, idx)

\* Mutant of override_path: the evaluated expression is not used.
override_path_unused(c, default) == default

\* The match on the evaluated parent_type expression: the parent path it
\* gives, or the default when it gives none.
override_path(c, default) ==
    IF c.ok /\ c.kind = "string" THEN c.str
    ELSE IF c.ok /\ c.kind = "prefab" /\ c.vars = <<>> THEN prefab_to_path(c.path)
    ELSE default

\* The errors of that match.
override_errors(c, location) ==
    IF c.ok /\ (c.kind = "string" \/ (c.kind = "prefab" /\ c.vars = <<>>)) THEN {}
    ELSE IF c.ok THEN {[location |-> location, kind |-> "bad parent_type", path |-> <<>>, parent_type |-> <<>>]}
    ELSE {[location |-> location, kind |-> "evaluation", path |-> <<>>, parent_type |-> <<>>]}

\* The parent path string computed for one type, the location a "bad parent
\* type" error would carry, and the errors of the computation.  /datum is
\* not given a string: its parent is the root.
parent_type_string(ty) ==
    LET path == ty.path
        slot == map_get(ty.vars, "parent_type")
        location == IF slot # None THEN slot[1].value.location ELSE ty.location
    IN  IF path = <<"/", "atom">> THEN [parent_type |-> <<"/", "datum">>, location |-> ty.location, errors |-> {}]
        ELSE IF path = <<"/", "turf">> \/ path = <<"/", "area">> THEN [parent_type |-> <<"/", "atom">>, location |-> ty.location, errors |-> {}]
        ELSE IF path = <<"/", "obj">> \/ path = <<"/", "mob">> THEN [parent_type |-> <<"/", "atom", "/", "movable">>, location |-> ty.location, errors |-> {}]
        ELSE IF slot # None /\ slot[1].value.expression # None
        THEN LET c == simple_evaluate(slot[1].value.expression[1])
             IN  [parent_type |-> override_path(c, lexical_default(path)), location |-> location, errors |-> override_errors(c, location)]
        ELSE [parent_type |-> lexical_default(path), location |-> location, errors |-> {}]

\* Mutant of bad_parent_fallback: the parent is left unset.
bad_parent_unset == BAD_NODE_INDEX

\* What is stored when the parent path is not indexed.
bad_parent_fallback == 0

\* One iteration of assign_parent_types: the index stored on the type and
\* the errors registered.
resolve_parent(self, path, type_idx) ==
    LET ty == Node(self.graph, type_idx)
        p == parent_type_string(ty)
    IN  IF path = <<"/", "datum">> THEN [idx |-> 0, errors |-> {}]
        ELSE IF find(self, p.parent_type) # None THEN [idx |-> find(self, p.parent_type)[1], errors |-> p.errors]
        ELSE [idx |-> bad_parent_fallback,
              errors |-> p.errors \cup {[location |-> p.location, kind |-> "bad parent type", path |-> path, parent_type |-> p.parent_type]}]

\* ObjectTree::assign_parent_types: every indexed type gets its parent.  An
\* iteration reads the index and the type's own vars and writes the type's
\* own parent_type, so the iterations do not depend on their order.
assign_parent_types(self) ==
    LET indexed(i) == \E p \in DOMAIN self.types : self.types[p] = i
        path_of(i) == CHOOSE p \in DOMAIN self.types : self.types[p] = i
    IN  [self |-> [self EXCEPT !.graph.nodes = [i \in 1..Len(self.graph.nodes) |->
                        IF indexed(i - 1)
                        THEN [self.graph.nodes[i] EXCEPT !.parent_type = resolve_parent(self, path_of(i - 1), i - 1).idx]
                        ELSE self.graph.nodes[i]]],
         errors |-> UNION {resolve_parent(self, p, self.types[p]).errors : p \in DOMAIN self.types}]

\* The constant of a var without an initializer.
null_constant == [ok |-> TRUE, kind |-> "null", str |-> <<>>, path |-> <<>>, vars |-> <<>>]

\* The vars of the tree in the order of evaluation: node by node, and in a
\* node in the order of insertion.  <<i, k>> is the k-th var of nodes[i].
RECURSIVE var_positions(_, _, _)
var_positions(self, i, k) ==
    IF i > Len(self.graph.nodes) THEN <<>>
    ELSE IF k > Len(self.graph.nodes[i].vars) THEN var_positions(self, i + 1, 1)
    ELSE <<<<i, k>>>> \o var_positions(self, i, k + 1)

\* The evaluation of the vars of `todo` in turn: a var whose initializer
\* evaluates gets its constant; one whose initializer does not gets an
\* error at the location of its value, after which the evaluation goes on
\* when sloppy and stops otherwise.
RECURSIVE evaluate_from(_, _, _)
evaluate_from(self, todo, sloppy) ==
    IF todo = <<>> THEN [self |-> self, errors |-> {}]
    ELSE LET i == Head(todo)[1]
             k == Head(todo)[2]
             value == self.graph.nodes[i].vars[k].val.value
             c == IF value.expression = None THEN null_constant ELSE simple_evaluate(value.expression[1])
             e == {[location |-> value.location, kind |-> "constant evaluation", path |-> self.graph.nodes[i].path, parent_type |-> <<>>]}
         IN  IF c.ok THEN evaluate_from([self EXCEPT !.graph.nodes[i].vars[k].val.value.constant = Some(c)], Tail(todo), sloppy)
             ELSE IF sloppy THEN [self |-> evaluate_from(self, Tail(todo), sloppy).self, errors |-> e \cup evaluate_from(self, Tail(todo), sloppy).errors]
             ELSE [self |-> self, errors |-> e]

\* constants::evaluate_all: the constant of every var of the tree, or an
\* error for it.
evaluate_all(self, sloppy) == evaluate_from(self, var_positions(self, 1, 1), sloppy)

----------------------------------------------------------------------------
(* Lookups along parent types.  A walk over parent types that comes back   *)
(* to a type it has visited never ends: the result of a lookup is either   *)
(* Returned(v) or Diverges.  A walk that makes more steps than there are   *)
(* nodes has visited one twice.                                            *)

Returned(v) == [returns |-> TRUE, value |-> <<v>>]

Diverges == [returns |-> FALSE, value |-> <<>>]

\* The while loop of TypeRef::is_subtype_of.
RECURSIVE is_subtype_of_walk(_, _, _, _)
is_subtype_of_walk(self, current, parent, fuel) ==
    IF current = None THEN Returned(FALSE)
    ELSE IF current[1] = parent THEN Returned(TRUE)
    ELSE IF fuel = 0 THEN Diverges
    ELSE is_subtype_of_walk(self, parent_type(self, current[1]), parent, fuel - 1)

\* Mutant of is_subtype_of: the walk starts at the parent type.
is_subtype_of_strict(self, idx, parent) == is_subtype_of_walk(self, parent_type(self, idx), parent, Len(self.graph.nodes))

\* TypeRef::is_subtype_of
is_subtype_of(self, idx, parent) == is_subtype_of_walk(self, Some(idx), parent, Len(self.graph.nodes))

\* The while loop of Type::get_value.
RECURSIVE get_value_walk(_, _, _, _)
get_value_walk(self, current, name, fuel) ==
    IF current = None THEN Returned(None)
    ELSE IF map_has(Node(self.graph, current[1]).vars, name) THEN Returned(Some(map_get(Node(self.graph, current[1]).vars, name)[1].value))
    ELSE IF fuel = 0 THEN Diverges
    ELSE get_value_walk(self, parent_type(self, current[1]), name, fuel - 1)

\* Type::get_value, TypeRef::get_value
get_value(self, idx, name) == get_value_walk(self, Some(idx), name, Len(self.graph.nodes))

\* The while loop of Type::get_var_declaration.
RECURSIVE get_var_declaration_walk(_, _, _, _)
get_var_declaration_walk(self, current, name, fuel) ==
    LET slot == map_get(Node(self.graph, current[1]).vars, name)
    IN  IF current = None THEN Returned(None)
        ELSE IF slot # None /\ slot[1].declaration # None THEN Returned(slot[1].declaration)
        ELSE IF fuel = 0 THEN Diverges
        ELSE get_var_declaration_walk(self, parent_type(self, current[1]), name, fuel - 1)

\* Type::get_var_declaration, TypeRef::get_var_declaration
get_var_declaration(self, idx, name) == get_var_declaration_walk(self, Some(idx), name, Len(self.graph.nodes))

\* The index get_proc anchors a ProcRef at.
anchor(list) == Len(list) - 1

\* The while loop of TypeRef::get_proc.  A ProcRef is [ty, name, idx].
RECURSIVE get_proc_walk(_, _, _, _)
get_proc_walk(self, current, name, fuel) ==
    LET slot == map_get(Node(self.graph, current[1]).procs, name)
    IN  IF current = None THEN Returned(None)
        ELSE IF slot # None THEN Returned(Some([ty |-> current[1], name |-> name, idx |-> anchor(slot[1].value)]))
        ELSE IF fuel = 0 THEN Diverges
        ELSE get_proc_walk(self, parent_type(self, current[1]), name, fuel - 1)

\* TypeRef::get_proc
get_proc(self, idx, name) == get_proc_walk(self, Some(idx), name, Len(self.graph.nodes))

\* The while loop of TypeRef::get_proc_declaration.
RECURSIVE get_proc_declaration_walk(_, _, _, _)
get_proc_declaration_walk(self, current, name, fuel) ==
    LET slot == map_get(Node(self.graph, current[1]).procs, name)
    IN  IF current = None THEN Returned(None)
        ELSE IF slot # None /\ slot[1].declaration # None THEN Returned(slot[1].declaration)
        ELSE IF fuel = 0 THEN Diverges
        ELSE get_proc_declaration_walk(self, parent_type(self, current[1]), name, fuel - 1)

\* TypeRef::get_proc_declaration
get_proc_declaration(self, idx, name) == get_proc_declaration_walk(self, Some(idx), name, Len(self.graph.nodes))

\* ProcRef::get: the ProcValue a ProcRef stands for.
proc_value(self, pr) == map_get(Node(self.graph, pr.ty).procs, pr.name)[1].value[pr.idx + 1]

\* ProcRef::parent_proc
parent_proc(self, pr) ==
    IF pr.idx >= 1 THEN Returned(Some([pr EXCEPT !.idx = pr.idx - 1]))
    ELSE IF parent_type(self, pr.ty) = None THEN Returned(None)
    ELSE get_proc(self, parent_type(self, pr.ty)[1], pr.name)

----------------------------------------------------------------------------
(* Navigation along paths *)

\* PathOp::Dot: a child of the type or of any of its parent paths.
RECURSIVE navigate_dot(_, _, _)
navigate_dot(self, next, name) ==
    IF next = None THEN None
    ELSE IF child(self, next[1], name) # None THEN child(self, next[1], name)
    ELSE navigate_dot(self, parent_path(self, next[1]), name)

\* PathOp::Colon: a child of the type or of any of its children; `ns` is
\* what is left of the walk over the type's neighbors.
RECURSIVE navigate_colon(_, _, _)
RECURSIVE navigate_colon_each(_, _, _)
navigate_colon(self, idx, name) == IF child(self, idx, name) # None THEN child(self, idx, name) ELSE navigate_colon_each(self, neighbors(self.graph, idx), name)

navigate_colon_each(self, ns, name) ==
    IF ns = <<>> THEN None
    ELSE IF navigate_colon(self, Head(ns), name) # None THEN navigate_colon(self, Head(ns), name)
    ELSE navigate_colon_each(self, Tail(ns), name)

\* TypeRef::navigate
navigate(self, idx, op, name) ==
    IF op = "Slash" THEN child(self, idx, name)
    ELSE IF op = "Dot" THEN navigate_dot(self, Some(idx), name)
    ELSE navigate_colon(self, idx, name)

\* The for loop of navigate_path over the pieces after the first.
RECURSIVE navigate_path_loop(_, _, _)
navigate_path_loop(self, next, pieces) ==
    IF pieces = <<>> THEN next
    ELSE IF next = None THEN None
    ELSE navigate_path_loop(self, navigate(self, next[1], Head(pieces)[1], Head(pieces)[2]), Tail(pieces))

\* Mutant of first_piece_start: the first piece is always resolved from the
\* type itself.
first_piece_start_self(idx, op) == idx

\* The type the first piece of navigate_path is resolved from.
first_piece_start(idx, op) == IF op = "Slash" THEN root ELSE idx

\* TypeRef::navigate_path; a piece is <<op, name>>.
navigate_path(self, idx, pieces) ==
    IF pieces = <<>> THEN Some(idx)
    ELSE navigate_path_loop(self, navigate(self, first_piece_start(idx, Head(pieces)[1]), Head(pieces)[1], Head(pieces)[2]), Tail(pieces))

----------------------------------------------------------------------------
(* The state machine *)

\* The tree the variables hold.
Tree == [graph |-> graph, types |-> types]

\* The root node of ObjectTree::default().
root_type == [name |-> "", path |-> <<>>, vars |-> <<>>, procs |-> <<>>, location |-> 0, location_specificity |-> 0, parent_type |-> BAD_NODE_INDEX]

\* ObjectTree::default(): the root alone, nothing indexed, no error.
Init ==
    /\ graph = [nodes |-> <<root_type>>, edges |-> <<>>]
    /\ types = <<>>
    /\ errors = {}
    /\ calls = <<>>
    /\ finalized = FALSE

\* The record kept of a builder call: its arguments and what it returned.
call_record(op, path, len, location, expr, suffix, r) == [op |-> op, path |-> path, len |-> len, location |-> location, expr |-> expr, suffix |-> suffix, ok |-> r.ok, err |-> r.err, idx |-> r.idx]

\* A call of add_entry.
AddEntry(path, len, suffix) ==
    /\ ~finalized
    /\ Len(calls) < MaxCalls
    /\ LET location == Len(calls) + 1
           r == add_entry(Tree, location, path, len, suffix)
       IN  /\ graph' = r.self.graph
           /\ types' = r.self.types
           /\ calls' = Append(calls, call_record("add_entry", path, len, location, None, suffix, r))
    /\ UNCHANGED <<errors, finalized>>

\* A call of add_var.
AddVar(path, len, expr, suffix) ==
    /\ ~finalized
    /\ Len(calls) < MaxCalls
    /\ LET location == Len(calls) + 1
           r == add_var(Tree, location, path, len, expr, suffix)
       IN  /\ graph' = r.self.graph
           /\ types' = r.self.types
           /\ calls' = Append(calls, call_record("add_var", path, len, location, Some(expr), suffix, r))
    /\ UNCHANGED <<errors, finalized>>

\* A call of add_proc.
AddProc(path, len) ==
    /\ ~finalized
    /\ Len(calls) < MaxCalls
    /\ LET location == Len(calls) + 1
           r == add_proc(Tree, location, path, len)
       IN  /\ graph' = r.self.graph
           /\ types' = r.self.types
           /\ calls' = Append(calls, call_record("add_proc", path, len, location, None, <<>>, r))
    /\ UNCHANGED <<errors, finalized>>

\* ObjectTree::finalize: the parent-type pass, then the evaluation of the
\* constants of the tree it leaves, both registering their errors.
Finalize(sloppy) ==
    /\ ~finalized
    /\ LET r == assign_parent_types(Tree)
           e == evaluate_all(r.self, sloppy)
       IN  /\ graph' = e.self.graph
           /\ errors' = errors \cup r.errors \cup e.errors
    /\ finalized' = TRUE
    /\ UNCHANGED <<types, calls>>

----------------------------------------------------------------------------
(* Inputs *)

\* The expressions of the model.
StringExpr(s) == [kind |-> "string", str |-> s, path |-> <<>>, vars |-> <<>>]

PrefabExpr(pieces, overrides) == [kind |-> "prefab", str |-> <<>>, path |-> pieces, vars |-> overrides]

NumberExpr(n) == [kind |-> "number", str |-> <<n>>, path |-> <<>>, vars |-> <<>>]

InvalidExpr == [kind |-> "invalid", str |-> <<>>, path |-> <<>>, vars |-> <<>>]

\* The default suffix, `[]` and `[10]`.
DefaultSuffix == <<>>

UnsizedSuffix == <<None>>

SizedSuffix == <<Some("10")>>

Specificities == 1..MaxSpec

\* ObjectTree::register_builtins: the built-in types, each registered with
\* add_entry before any other call, at the location of the builtins (0) and
\* with the length of its path as specificity.
BuiltinPaths == <<<<"datum">>, <<"atom">>, <<"atom", "movable">>, <<"area">>, <<"turf">>, <<"obj">>, <<"mob">>>>

RECURSIVE register_builtins(_, _)
register_builtins(self, paths) == IF paths = <<>> THEN self ELSE register_builtins(add_entry(self, 0, Head(paths), Len(Head(paths)), DefaultSuffix).self, Tail(paths))

RegisterBuiltins ==
    /\ ~finalized
    /\ calls = <<>>
    /\ Len(graph.nodes) = 1
    /\ graph' = register_builtins(Tree, BuiltinPaths).graph
    /\ types' = register_builtins(Tree, BuiltinPaths).types
    /\ UNCHANGED <<errors, calls, finalized>>

\* Spec: building types.  Paths that name types, with a var and a proc
\* under them, and paths the entry points refuse.
TypeEntryPaths == {<<"obj">>, <<"obj", "item">>, <<"item">>}

TypeVarPaths == {<<"obj", "var", "x">>, <<"obj", "item", "x">>}

TypeProcPaths == {<<"obj", "item", "proc", "f">>, <<"obj", "proc">>}

TypeExprs == {NumberExpr("1")}

Next ==
    \/ \E path \in TypeEntryPaths, len \in Specificities : AddEntry(path, len, DefaultSuffix)
    \/ \E path \in TypeVarPaths, len \in Specificities, expr \in TypeExprs : AddVar(path, len, expr, DefaultSuffix)
    \/ \E path \in TypeProcPaths, len \in Specificities : AddProc(path, len)
    \/ \E sloppy \in BOOLEAN : Finalize(sloppy)

Spec == Init /\ [][Next]_vars

\* SpecVars: declaring and overriding the variable x of /obj, through the
\* var header (bare, with qualifiers and a type path, or without a name) and
\* without it.
VarEntryPaths == {<<"obj", "var", "x">>}

VarVarPaths == {<<"obj", "x">>, <<"obj", "var", "x">>, <<"obj", "var", "static", "item", "x">>, <<"obj", "var", "tmp">>, <<"obj", "proc", "x">>}

VarProcPaths == {<<"obj", "x">>}

VarExprs == {NumberExpr("1"), NumberExpr("2")}

\* The suffixes of the declarations, and the paths add_var is given with a
\* sized suffix.
VarSuffixes == {DefaultSuffix, UnsizedSuffix, SizedSuffix}

VarSuffixedPaths == {<<"obj", "x">>, <<"obj", "var", "x">>}

NextVars ==
    \/ \E path \in VarEntryPaths, suffix \in VarSuffixes : AddEntry(path, 1, suffix)
    \/ \E path \in VarVarPaths, expr \in VarExprs : AddVar(path, 1, expr, DefaultSuffix)
    \/ \E path \in VarSuffixedPaths : AddVar(path, 1, NumberExpr("1"), SizedSuffix)
    \/ \E path \in VarProcPaths : AddProc(path, 1)
    \/ \E sloppy \in BOOLEAN : Finalize(sloppy)

SpecVars == Init /\ [][NextVars]_vars

\* SpecFinal: parent types.  The built-in types may be registered first;
\* then /mob/goon, /goon and /goon/kid are declared, with procs, and /goon
\* and the built-in /obj are given a parent_type var: without a value, or
\* with a string naming /mob, /goon itself or no type, a path literal with
\* and without var overrides, a number or an expression that is no constant.
FinalEntryPaths == {<<"mob", "goon">>, <<"goon", "var", "parent_type">>}

FinalGoonExprs == {StringExpr(<<"/", "mob">>), StringExpr(<<"/", "nope">>), StringExpr(<<"/", "goon">>), PrefabExpr(<<"mob", "goon">>, <<>>), PrefabExpr(<<"mob">>, <<"name">>), NumberExpr("1"), InvalidExpr}

FinalObjExprs == {StringExpr(<<"/", "mob">>), StringExpr(<<"/", "nope">>)}

FinalVars == {[path |-> <<"goon", "parent_type">>, expr |-> e] : e \in FinalGoonExprs} \cup {[path |-> <<"obj", "parent_type">>, expr |-> e] : e \in FinalObjExprs}

FinalProcPaths == {<<"goon", "kid", "f">>, <<"mob", "proc", "f">>}

NextFinal ==
    \/ RegisterBuiltins
    \/ \E path \in FinalEntryPaths : AddEntry(path, 1, DefaultSuffix)
    \/ \E v \in FinalVars : AddVar(v.path, 1, v.expr, DefaultSuffix)
    \/ \E path \in FinalProcPaths : AddProc(path, 1)
    \/ \E sloppy \in BOOLEAN : Finalize(sloppy)

SpecFinal == Init /\ [][NextFinal]_vars

\* SpecNav: navigation.  /obj/item/weapon, /obj/gun, /item and /gun/weapon
\* are declared, directly or as the type of a var or of a proc.
NavEntryPaths == {<<"obj", "item", "weapon">>, <<"obj", "gun">>, <<"item">>, <<"gun", "weapon">>}

NavVarPaths == {<<"obj", "item", "x">>}

NavProcPaths == {<<"obj", "gun", "f">>}

NextNav ==
    \/ \E path \in NavEntryPaths : AddEntry(path, 1, DefaultSuffix)
    \/ \E path \in NavVarPaths : AddVar(path, 1, NumberExpr("1"), DefaultSuffix)
    \/ \E path \in NavProcPaths : AddProc(path, 1)
    \/ \E sloppy \in BOOLEAN : Finalize(sloppy)

SpecNav == Init /\ [][NextNav]_vars

\* SpecProcs: add_proc with every shape of path: empty, without keyword,
\* through proc and verb, stopped at var, without a name after the keyword,
\* with segments after the name, and on the root.
ProcEntryPaths == {<<"obj">>}

ProcVarPaths == {<<"obj", "x">>}

ProcProcPaths == {<<>>, <<"f">>, <<"var">>, <<"proc", "f">>, <<"obj", "f">>, <<"obj", "proc">>, <<"obj", "proc", "f">>, <<"obj", "verb", "f">>, <<"obj", "var", "f">>, <<"obj", "proc", "f", "g">>, <<"obj", "item", "proc", "var">>}

NextProcs ==
    \/ \E path \in ProcEntryPaths : AddEntry(path, 1, DefaultSuffix)
    \/ \E path \in ProcVarPaths : AddVar(path, 1, NumberExpr("1"), DefaultSuffix)
    \/ \E path \in ProcProcPaths : AddProc(path, 1)
    \/ \E sloppy \in BOOLEAN : Finalize(sloppy)

SpecProcs == Init /\ [][NextProcs]_vars

\* SpecPaths: lookups by segments.  /obj/item, /list, /list/x, /obj/list/x
\* and /x are declared, directly or as the type of a var or of a proc.
PathEntryPaths == {<<"obj", "item">>, <<"list">>, <<"list", "x">>, <<"obj", "list", "x">>, <<"x">>}

PathVarPaths == {<<"list", "x", "v">>}

PathProcPaths == {<<"obj", "f">>}

NextPaths ==
    \/ \E path \in PathEntryPaths : AddEntry(path, 1, DefaultSuffix)
    \/ \E path \in PathVarPaths : AddVar(path, 1, NumberExpr("1"), DefaultSuffix)
    \/ \E path \in PathProcPaths : AddProc(path, 1)
    \/ \E sloppy \in BOOLEAN : Finalize(sloppy)

SpecPaths == Init /\ [][NextPaths]_vars

----------------------------------------------------------------------------
(* Vocabulary of the claims *)

\* The indices of the nodes of the graph.
NodeIds == 0..(Len(graph.nodes) - 1)

\* The path string of a sequence of segments.
RECURSIVE PathOf(_)
PathOf(segs) == IF segs = <<>> THEN <<>> ELSE PathOf(SubSeq(segs, 1, Len(segs) - 1)) \o <<"/", segs[Len(segs)]>>

\* The segments of a path string.
SegmentsOf(p) == [i \in 1..(Len(p) \div 2) |-> p[2 * i]]

\* The node calling child() with each segment in turn leads to.
RECURSIVE Descend(_, _)
Descend(cur, segs) == IF segs = <<>> \/ cur = None THEN cur ELSE Descend(child(Tree, cur[1], Head(segs)), Tail(segs))

\* The declaration keywords of a path.
Keywords == {"var", "proc", "verb"}

\* The position of the first declaration keyword of a path, 0 without one.
FirstDecl(path) == IF \E i \in 1..Len(path) : path[i] \in Keywords THEN CHOOSE i \in 1..Len(path) : path[i] \in Keywords /\ \A j \in 1..(i - 1) : path[j] \notin Keywords ELSE 0

\* How many leading segments of a call's path name types the call walks
\* through: those before the first keyword; without a keyword all of them
\* for add_entry, and all but the last, the var or proc name, otherwise.
TypeSegments(c) == IF FirstDecl(c.path) > 0 THEN FirstDecl(c.path) - 1 ELSE IF c.op = "add_entry" THEN Len(c.path) ELSE IF c.path = <<>> THEN 0 ELSE Len(c.path) - 1

\* The type paths a call registers.
Touched(c) == {PathOf(SubSeq(c.path, 1, j)) : j \in 1..TypeSegments(c)}

\* The node of a type path, the root for the empty one.
TypeNode(p) == IF p = <<>> THEN root ELSE types[p]

----------------------------------------------------------------------------
(* C1 *)

\* C1: the path index and the graph agree after any sequence of add_entry,
\* add_var and add_proc calls, failing ones included: every node but the
\* root is indexed under its own path and under no other, find(p).path = p
\* for every indexed p, the root is not indexed, and find(p) is the node
\* reached from the root by child() with the segments of p in order.
C1_IndexAgreesWithGraph ==
    /\ \A i \in NodeIds \ {root} : find(Tree, Node(graph, i).path) = Some(i)
    /\ \A p \in DOMAIN types : types[p] \in NodeIds \ {root} /\ Node(graph, types[p]).path = p
    /\ \A p \in DOMAIN types : Descend(Some(root), SegmentsOf(p)) = find(Tree, p)

\* A nested type, /obj/item, is indexed, one call failed and one succeeded.
C1_Witness ==
    /\ PathOf(<<"obj", "item">>) \in DOMAIN types
    /\ \E i, j \in 1..Len(calls) : ~calls[i].ok /\ calls[j].ok /\ calls[j].op # "add_entry"

----------------------------------------------------------------------------
(* C2 *)

\* The calls that register type path p.
Registrations(p) == {k \in 1..Len(calls) : p \in Touched(calls[k])}

\* C2: when exactly two calls registered a type path and their specificity
\* numbers differ, the node's location is the location of the call with
\* the smaller number, and its specificity is that number, whichever of the
\* two came first.
C2_SmallerSpecificityWins ==
    \A p \in DOMAIN types : \A i, j \in Registrations(p) :
        (Registrations(p) = {i, j} /\ calls[i].len < calls[j].len) =>
            /\ Node(graph, types[p]).location = calls[i].location
            /\ Node(graph, types[p]).location_specificity = calls[i].len

\* /obj was registered twice and the later call, with the smaller number,
\* took the location over.
C2_Witness ==
    \E i, j \in Registrations(PathOf(<<"obj">>)) :
        /\ Registrations(PathOf(<<"obj">>)) = {i, j}
        /\ i < j
        /\ calls[j].len < calls[i].len
        /\ Node(graph, types[PathOf(<<"obj">>)]).location = calls[j].location

----------------------------------------------------------------------------
(* C3 *)

\* The type a var call names, and the name of the var.
VarType(c) == PathOf(SubSeq(c.path, 1, TypeSegments(c)))

VarName(c) == c.path[Len(c.path)]

\* The call went through the var header.
ThroughHeader(c) == FirstDecl(c.path) > 0 /\ c.path[FirstDecl(c.path)] = "var"

\* A successful add_var for n on T through the var header.
DeclaresByHeader(c, T, n) == c.op = "add_var" /\ c.ok /\ ThroughHeader(c) /\ VarType(c) = T /\ VarName(c) = n

\* A successful add_var for n on T without any header.
Overrides(c, T, n) == c.op = "add_var" /\ c.ok /\ FirstDecl(c.path) = 0 /\ VarType(c) = T /\ VarName(c) = n

\* A step that is a header-less add_var for n on T, made after an add_var
\* that declared n on T through the header, keeps the declaration of the
\* slot and stores the expression and the location of the call in its value.
C3_Step ==
    Len(calls') = Len(calls) + 1 =>
        LET c == calls'[Len(calls')]
            T == VarType(c)
            n == VarName(c)
            before == map_get(Node(graph, TypeNode(T)).vars, n)
            after == map_get(Node(graph', TypeNode(T)).vars, n)
        IN  (c.path # <<>> /\ Overrides(c, T, n) /\ \E i \in 1..Len(calls) : DeclaresByHeader(calls[i], T, n)) =>
                /\ before # None
                /\ after # None
                /\ after[1].declaration = before[1].declaration
                /\ after[1].value.location = c.location
                /\ after[1].value.expression = c.expr

\* C3: once add_var has declared n on T through the var header, a later
\* header-less add_var for n on T leaves the declaration of the slot (type
\* path, flags, location) unchanged and sets value.expression and
\* value.location to those of that call.
C3_OverrideKeepsDeclaration == [][C3_Step]_vars

\* x of /obj was declared static with type path item by one add_var, and the
\* last call, a header-less add_var with another expression, has set the
\* value while the declaration is still that of the first.
C3_Witness ==
    \E i \in 1..Len(calls) :
        LET j == Len(calls)
            slot == map_get(Node(graph, TypeNode(PathOf(<<"obj">>))).vars, "x")
        IN  /\ i < j
            /\ DeclaresByHeader(calls[i], PathOf(<<"obj">>), "x")
            /\ Overrides(calls[j], PathOf(<<"obj">>), "x")
            /\ calls[i].expr # calls[j].expr
            /\ slot # None
            /\ slot[1].declaration = Some([var_type |-> [is_static |-> TRUE, is_const |-> FALSE, is_tmp |-> FALSE, type_path |-> <<"item">>], location |-> calls[i].location])
            /\ slot[1].value.location = calls[j].location
            /\ slot[1].value.expression = calls[j].expr

----------------------------------------------------------------------------
(* Vocabulary of the claims about parent types *)

\* The paths whose parent the code fixes, with the parent of each.
HardcodedPaths == {PathOf(<<"datum">>), PathOf(<<"atom">>), PathOf(<<"turf">>), PathOf(<<"area">>), PathOf(<<"obj">>), PathOf(<<"mob">>)}

HardcodedParent(p) == IF p = PathOf(<<"datum">>) THEN <<>> ELSE IF p = PathOf(<<"atom">>) THEN PathOf(<<"datum">>) ELSE IF p \in {PathOf(<<"turf">>), PathOf(<<"area">>)} THEN PathOf(<<"atom">>) ELSE PathOf(<<"atom", "movable">>)

\* The registered type paths, and the type of one.
Registered == DOMAIN types

TypeOf(p) == Node(graph, types[p])

\* The type's own vars contain parent_type.
HasParentTypeVar(p) == map_has(TypeOf(p).vars, "parent_type")

ParentTypeVar(p) == map_get(TypeOf(p).vars, "parent_type")[1]

\* The parent_type var of the type has an expression that evaluates to a
\* string constant or to a type reference without var overrides.
NamesParent(p) == HasParentTypeVar(p) /\ ParentTypeVar(p).value.expression # None /\ LET e == ParentTypeVar(p).value.expression[1] IN e.kind = "string" \/ (e.kind = "prefab" /\ e.vars = <<>>)

\* The path that expression names.
NamedParent(p) == LET e == ParentTypeVar(p).value.expression[1] IN IF e.kind = "string" THEN e.str ELSE PathOf(e.path)

\* The lexical parent path: the path without its last segment.
LexicalParent(p) == PathOf(SubSeq(SegmentsOf(p), 1, Len(SegmentsOf(p)) - 1))

\* The default parent path of the code: the lexical parent, /datum for a
\* top-level type.
DefaultParent(p) == IF Len(SegmentsOf(p)) = 1 THEN PathOf(<<"datum">>) ELSE LexicalParent(p)

\* The parent path finalization computes for a registered type.
ComputedParent(p) == IF p \in HardcodedPaths THEN HardcodedParent(p) ELSE IF NamesParent(p) THEN NamedParent(p) ELSE DefaultParent(p)

\* The semantic parent stored on a registered type.
ParentOf(p) == TypeOf(p).parent_type

----------------------------------------------------------------------------
(* C4 *)

\* C4 as stated: after finalization every registered type whose parent_type
\* var names a registered path has that path's node as semantic parent, the
\* hardcoded built-in types included.  The code never reads the var of a
\* hardcoded type.
C4_Original == finalized => \A p \in Registered : (NamesParent(p) /\ NamedParent(p) \in Registered) => ParentOf(p) = types[NamedParent(p)]

\* C4, amended: after finalization every registered type that is not one of
\* the hardcoded built-in paths and whose own vars contain parent_type with
\* an expression evaluating to a string constant, or to a type reference
\* without var overrides, that names a registered path has that path's node
\* as semantic parent, in place of the lexical default.
C4_OverrideSetsParent == finalized => \A p \in Registered \ HardcodedPaths : (NamesParent(p) /\ NamedParent(p) \in Registered) => ParentOf(p) = types[NamedParent(p)]

\* /goon names /mob, its default parent /datum is registered, and after
\* finalization its parent is /mob.
C4_Witness ==
    /\ finalized
    /\ {PathOf(<<"goon">>), PathOf(<<"mob">>), PathOf(<<"datum">>)} \subseteq Registered
    /\ NamesParent(PathOf(<<"goon">>))
    /\ NamedParent(PathOf(<<"goon">>)) = PathOf(<<"mob">>)
    /\ ParentOf(PathOf(<<"goon">>)) = types[PathOf(<<"mob">>)]
    /\ ParentOf(PathOf(<<"goon">>)) # types[PathOf(<<"datum">>)]

----------------------------------------------------------------------------
(* C5 *)

\* C5 as stated: after finalization a registered type that is not hardcoded
\* and has no parent_type var has its lexical parent as semantic parent,
\* the root when it is top-level.  The code gives a top-level type /datum.
C5_Original == finalized => \A p \in Registered \ HardcodedPaths : ~HasParentTypeVar(p) => ParentOf(p) = TypeNode(LexicalParent(p))

\* C5, amended: after finalization a registered type that is not hardcoded
\* and has no parent_type var has as semantic parent the node of its path
\* without the last segment when the path has several segments; a top-level
\* type has /datum when /datum is registered, and the root otherwise.
C5_DefaultParent ==
    finalized => \A p \in Registered \ HardcodedPaths : ~HasParentTypeVar(p) =>
        IF Len(SegmentsOf(p)) > 1
        THEN LexicalParent(p) \in Registered /\ ParentOf(p) = types[LexicalParent(p)]
        ELSE IF PathOf(<<"datum">>) \in Registered
        THEN ParentOf(p) = types[PathOf(<<"datum">>)]
        ELSE ParentOf(p) = root

\* /mob/goon and the top-level /goon have no parent_type var; after
\* finalization the parent of the first is /mob and of the second /datum.
C5_Witness ==
    /\ finalized
    /\ {PathOf(<<"mob", "goon">>), PathOf(<<"goon">>), PathOf(<<"mob">>), PathOf(<<"datum">>)} \subseteq Registered
    /\ ~HasParentTypeVar(PathOf(<<"mob", "goon">>))
    /\ ~HasParentTypeVar(PathOf(<<"goon">>))
    /\ ParentOf(PathOf(<<"mob", "goon">>)) = types[PathOf(<<"mob">>)]
    /\ ParentOf(PathOf(<<"goon">>)) = types[PathOf(<<"datum">>)]

----------------------------------------------------------------------------
(* C6 *)

\* The "bad parent type" error of a type, at a location.
BadParentError(p, location) == [location |-> location, kind |-> "bad parent type", path |-> p, parent_type |-> ComputedParent(p)]

\* The computed parent path of the type is not registered.
BadParent(p) == p # PathOf(<<"datum">>) /\ ComputedParent(p) \notin Registered

\* C6 as stated: the error of a type whose computed parent path is not
\* registered is at the type's own location.  The code reports it at the
\* location of the value of the type's parent_type var when it has one.
C6_Original ==
    finalized => \A p \in Registered : BadParent(p) =>
        /\ BadParentError(p, TypeOf(p).location) \in errors
        /\ ParentOf(p) = root
        /\ \A q \in Registered : ParentOf(q) \in NodeIds

\* C6, amended: when the parent path computed for a type is not registered,
\* finalization registers a "bad parent type" error, at the location of the
\* value of the type's parent_type var when the type is not hardcoded and
\* has such a var, and at the type's own location otherwise; it sets the
\* type's semantic parent to the root, and every registered type has a
\* semantic parent.
C6_BadParentFallsBack ==
    finalized => \A p \in Registered : BadParent(p) =>
        /\ BadParentError(p, IF p \notin HardcodedPaths /\ HasParentTypeVar(p) THEN ParentTypeVar(p).value.location ELSE TypeOf(p).location) \in errors
        /\ ParentOf(p) = root
        /\ \A q \in Registered : ParentOf(q) \in NodeIds

\* /goon, declared by one call, was given a parent_type naming no type by a
\* later one; finalization reported it at the var and gave /goon the root,
\* while /goon/kid got /goon.
C6_Witness ==
    /\ finalized
    /\ {PathOf(<<"goon">>), PathOf(<<"goon", "kid">>)} \subseteq Registered
    /\ NamesParent(PathOf(<<"goon">>))
    /\ BadParent(PathOf(<<"goon">>))
    /\ ParentTypeVar(PathOf(<<"goon">>)).value.location # TypeOf(PathOf(<<"goon">>)).location
    /\ BadParentError(PathOf(<<"goon">>), ParentTypeVar(PathOf(<<"goon">>)).value.location) \in errors
    /\ ParentOf(PathOf(<<"goon">>)) = root
    /\ ParentOf(PathOf(<<"goon", "kid">>)) = types[PathOf(<<"goon">>)]

----------------------------------------------------------------------------
(* C7 *)

\* is_subtype_of returns TRUE.
IsSubtype(a, b) == is_subtype_of(Tree, a, b) = Returned(TRUE)

\* is_subtype_of is reflexive and transitive.
SubtypeIsPreorder ==
    /\ \A t \in NodeIds : IsSubtype(t, t)
    /\ \A a, b, c \in NodeIds : (IsSubtype(a, b) /\ IsSubtype(b, c)) => IsSubtype(a, c)

\* The parent_type var of the type names a path that is not registered.
BogusOverride(p) == NamesParent(p) /\ NamedParent(p) \notin Registered

\* The type is a subtype of itself and of the root and of nothing else.
OnlySelfAndRoot(p) == \A u \in NodeIds : is_subtype_of(Tree, types[p], u) = Returned(u \in {types[p], root})

\* C7 as stated: with any type whose parent_type names an unregistered path
\* a subtype of itself and the root only, the hardcoded types included.
C7_Original == finalized => (SubtypeIsPreorder /\ \A p \in Registered : BogusOverride(p) => OnlySelfAndRoot(p))

\* C7, amended: after finalization is_subtype_of is reflexive and
\* transitive, and a type that is not one of the hardcoded built-in paths
\* and whose parent_type var names an unregistered path is a subtype of
\* exactly two types, itself and the root.
C7_SubtypeOrder == finalized => (SubtypeIsPreorder /\ \A p \in Registered \ HardcodedPaths : BogusOverride(p) => OnlySelfAndRoot(p))

\* After finalization /obj is a subtype of /atom/movable, that of /atom, and
\* /obj of /atom; /goon, whose parent_type names no type, is a subtype of
\* itself and the root and not of /datum.
C7_Witness ==
    /\ finalized
    /\ {PathOf(<<"obj">>), PathOf(<<"atom", "movable">>), PathOf(<<"atom">>), PathOf(<<"datum">>), PathOf(<<"goon">>)} \subseteq Registered
    /\ IsSubtype(types[PathOf(<<"obj">>)], types[PathOf(<<"atom", "movable">>)])
    /\ IsSubtype(types[PathOf(<<"atom", "movable">>)], types[PathOf(<<"atom">>)])
    /\ IsSubtype(types[PathOf(<<"obj">>)], types[PathOf(<<"atom">>)])
    /\ BogusOverride(PathOf(<<"goon">>))
    /\ IsSubtype(types[PathOf(<<"goon">>)], root)
    /\ is_subtype_of(Tree, types[PathOf(<<"goon">>)], types[PathOf(<<"datum">>)]) = Returned(FALSE)

----------------------------------------------------------------------------
(* Vocabulary of the claims about lookups *)

\* The k-th type of the chain t, parent_type(t), parent_type(parent_type(t)),
\* ...: None past the end of the chain.
RECURSIVE Ancestor(_, _)
Ancestor(t, k) == IF k = 0 THEN Some(t) ELSE IF Ancestor(t, k - 1) = None THEN None ELSE parent_type(Tree, Ancestor(t, k - 1)[1])

\* Every type of a chain is among its first Len(graph.nodes) + 1 places.
ChainPlaces == 0..Len(graph.nodes)

Least(S) == CHOOSE k \in S : \A j \in S : k <= j

\* The places of the chain of t whose type has a var slot named x, and
\* those whose slot carries a declaration.
Holders(t, x) == {k \in ChainPlaces : Ancestor(t, k) # None /\ map_has(Node(graph, Ancestor(t, k)[1]).vars, x)}

Declarers(t, x) == {k \in Holders(t, x) : map_get(Node(graph, Ancestor(t, k)[1]).vars, x)[1].declaration # None}

\* The value of the nearest type of the chain with a slot x, and the
\* declaration of the nearest whose slot x carries one.
NearestValue(t, x) == IF Holders(t, x) = {} THEN None ELSE Some(map_get(Node(graph, Ancestor(t, Least(Holders(t, x)))[1]).vars, x)[1].value)

NearestDeclaration(t, x) == IF Declarers(t, x) = {} THEN None ELSE map_get(Node(graph, Ancestor(t, Least(Declarers(t, x)))[1]).vars, x)[1].declaration

VarNames == {"x", "parent_type"}

----------------------------------------------------------------------------
(* C8 *)

\* C8: after finalization get_value(t, x) returns the value of the slot x
\* of the nearest type of the chain t, parent_type(t), ... that has a slot
\* named x, and get_var_declaration(t, x) the declaration of the nearest
\* type of the chain whose slot x carries one; each returns nothing when no
\* type of the chain qualifies.  Fails where the chain is a cycle without a
\* qualifying type: the walk does not return.
C8_NearestInChain ==
    finalized => \A t \in NodeIds, x \in VarNames :
        /\ get_value(Tree, t, x) = Returned(NearestValue(t, x))
        /\ get_var_declaration(Tree, t, x) = Returned(NearestDeclaration(t, x))

----------------------------------------------------------------------------
(* C9 *)

\* The successful add_proc calls for n on T among the first k calls.
ProcCalls(T, n, k) == {j \in 1..k : calls[j].op = "add_proc" /\ calls[j].ok /\ VarType(calls[j]) = T /\ VarName(calls[j]) = n}

\* The list of ProcValues of n on node t.
ProcList(t, n) == map_get(Node(graph, t).procs, n)[1].value

\* The places of the chain of t, past t itself, whose type has a proc n.
ProcHolders(t, n) == {k \in ChainPlaces \ {0} : Ancestor(t, k) # None /\ map_has(Node(graph, Ancestor(t, k)[1]).procs, n)}

\* The last entry for n of the nearest semantic ancestor of t that has one.
NearestProc(t, n) == IF ProcHolders(t, n) = {} THEN None ELSE LET a == Ancestor(t, Least(ProcHolders(t, n)))[1] IN Some([ty |-> a, name |-> n, idx |-> Len(ProcList(a, n)) - 1])

ProcNames == {"f"}

\* C9: the k-th successful add_proc for n on T returns k - 1 and its
\* ProcValue stays at that index; after finalization get_proc(T, n) is
\* anchored at the last index, parent_proc from index i > 0 yields index
\* i - 1 of the same type, and parent_proc from index 0 yields the last
\* entry for n of the nearest semantic ancestor of T with a proc n, nothing
\* if there is none.  Fails where the chain of T is a cycle without a proc
\* n: parent_proc from index 0 does not return.
C9_OverrideChain ==
    /\ \A k \in 1..Len(calls) : (calls[k].op = "add_proc" /\ calls[k].ok) =>
           LET T == VarType(calls[k])
               n == VarName(calls[k])
               rank == Cardinality(ProcCalls(T, n, k))
           IN  /\ calls[k].idx = rank - 1
               /\ ProcList(TypeNode(T), n)[rank] = [location |-> calls[k].location]
    /\ finalized => \A t \in NodeIds, n \in ProcNames : map_has(Node(graph, t).procs, n) =>
           /\ get_proc(Tree, t, n) = Returned(Some([ty |-> t, name |-> n, idx |-> Len(ProcList(t, n)) - 1]))
           /\ \A i \in 1..(Len(ProcList(t, n)) - 1) : parent_proc(Tree, [ty |-> t, name |-> n, idx |-> i]) = Returned(Some([ty |-> t, name |-> n, idx |-> i - 1]))
           /\ parent_proc(Tree, [ty |-> t, name |-> n, idx |-> 0]) = Returned(NearestProc(t, n))

----------------------------------------------------------------------------
(* C10 *)

PathOps == {"Slash", "Dot", "Colon"}

NavNames == {"obj", "item", "weapon", "gun"}

\* The sequences of at most n (operator, name) pieces.
RECURSIVE PieceSeqs(_)
PieceSeqs(n) == IF n = 0 THEN {<<>>} ELSE PieceSeqs(n - 1) \cup {Append(ps, <<op, name>>) : ps \in {q \in PieceSeqs(n - 1) : Len(q) = n - 1}, op \in PathOps, name \in NavNames}

\* navigate applied to each piece from left to right, from `start`: the
\* last piece is applied to the result of the pieces before it, and nothing
\* comes of nothing.
RECURSIVE NavigateEach(_, _)
NavigateEach(start, pieces) ==
    IF pieces = <<>> THEN Some(start)
    ELSE LET before == NavigateEach(start, SubSeq(pieces, 1, Len(pieces) - 1))
             last == pieces[Len(pieces)]
         IN  IF before = None THEN None ELSE navigate(Tree, before[1], last[1], last[2])

\* C10: navigate_path(t, pieces) is navigate applied to each piece from left
\* to right, starting from the root when the first operator is the
\* direct-child one and from t otherwise; it is absent once a step is, and
\* t for no piece.  The direct-child steps obj, item, weapon lead from any
\* t to /obj/item/weapon, and an upward search from /obj/item/weapon for a
\* name that is a child of /obj only finds that child.
C10_NavigatePath ==
    /\ \A t \in NodeIds : navigate_path(Tree, t, <<>>) = Some(t)
    /\ \A t \in NodeIds, pieces \in PieceSeqs(MaxPieces) \ {<<>>} :
           navigate_path(Tree, t, pieces) = NavigateEach(IF pieces[1][1] = "Slash" THEN root ELSE t, pieces)
    /\ PathOf(<<"obj", "item", "weapon">>) \in Registered =>
           LET obj == types[PathOf(<<"obj">>)]
               item == types[PathOf(<<"obj", "item">>)]
               weapon == types[PathOf(<<"obj", "item", "weapon">>)]
           IN  /\ \A t \in NodeIds : navigate_path(Tree, t, <<<<"Slash", "obj">>, <<"Slash", "item">>, <<"Slash", "weapon">>>>) = Some(weapon)
               /\ \A name \in NavNames : (child(Tree, obj, name) # None /\ child(Tree, item, name) = None /\ child(Tree, weapon, name) = None) =>
                      navigate(Tree, weapon, "Dot", name) = child(Tree, obj, name)

\* /obj/item/weapon and /obj/gun are declared: the three direct-child steps
\* lead from /obj/gun to the weapon, the upward search for gun from the
\* weapon finds /obj/gun, and a path whose first step is absent is absent.
C10_Witness ==
    /\ {PathOf(<<"obj", "item", "weapon">>), PathOf(<<"obj", "gun">>)} \subseteq Registered
    /\ PathOf(<<"gun">>) \notin Registered
    /\ navigate_path(Tree, types[PathOf(<<"obj", "gun">>)], <<<<"Slash", "obj">>, <<"Slash", "item">>, <<"Slash", "weapon">>>>) = Some(types[PathOf(<<"obj", "item", "weapon">>)])
    /\ navigate(Tree, types[PathOf(<<"obj", "item", "weapon">>)], "Dot", "gun") = Some(types[PathOf(<<"obj", "gun">>)])
    /\ navigate_path(Tree, types[PathOf(<<"obj", "gun">>)], <<<<"Slash", "gun">>, <<"Dot", "obj">>>>) = None

----------------------------------------------------------------------------
(* C11 *)

ProcKeywords == {"proc", "verb"}

\* The paths add_proc is claimed to refuse: the empty one, one whose first
\* keyword is var, one that ends at a proc or verb keyword, and one with
\* more than one segment after that keyword.
ProcPathRefused(path) ==
    \/ path = <<>>
    \/ /\ FirstDecl(path) > 0
       /\ \/ path[FirstDecl(path)] = "var"
          \/ path[FirstDecl(path)] \in ProcKeywords /\ Len(path) # FirstDecl(path) + 1

\* The procs of node i of a graph, none for a node it does not have.
ProcsIn(g, i) == IF i < Len(g.nodes) THEN Node(g, i).procs ELSE <<>>

\* The ProcValues of the slot n of node i of a graph.
ProcValuesIn(g, i, n) == IF map_has(ProcsIn(g, i), n) THEN map_get(ProcsIn(g, i), n)[1].value ELSE <<>>

\* A step that is an add_proc call fails exactly on a refused path; failing,
\* it leaves the procs of every node as they were; succeeding, it appends
\* one ProcValue to the slot of the name on the walked-to type and leaves
\* the values of every other slot as they were.
C11_Step ==
    (Len(calls') = Len(calls) + 1 /\ calls'[Len(calls')].op = "add_proc") =>
        LET c == calls'[Len(calls')]
            after == 0..(Len(graph'.nodes) - 1)
        IN  /\ c.ok = ~ProcPathRefused(c.path)
            /\ ProcPathRefused(c.path) => \A i \in after : ProcsIn(graph', i) = ProcsIn(graph, i)
            /\ ~ProcPathRefused(c.path) =>
                   LET T == VarType(c)
                       n == VarName(c)
                       t == IF T = <<>> THEN root ELSE types'[T]
                   IN  /\ ProcValuesIn(graph', t, n) = Append(ProcValuesIn(graph, t, n), [location |-> c.location])
                       /\ \A i \in after : \A m \in {e.key : e \in {ProcsIn(graph', i)[k] : k \in 1..Len(ProcsIn(graph', i))}} :
                              <<i, m>> # <<t, n>> => map_get(ProcsIn(graph', i), m) = map_get(ProcsIn(graph, i), m)

\* C11: add_proc returns an error exactly when the path is empty, when the
\* walk stops at the var keyword, when nothing follows a proc or verb
\* keyword, or when more than one segment follows it; then no ProcValue is
\* appended and no proc declaration is set on any node; in every other case
\* exactly one ProcValue is appended to the slot of the name on the
\* walked-to type.
C11_AddProcErrors == [][C11_Step]_vars

\* f of /obj got one ProcValue through verb, and the last call, an add_proc
\* with two segments after proc, failed and left the slot as it was.
C11_Witness ==
    /\ Len(calls) = 2
    /\ calls[1].op = "add_proc" /\ calls[1].ok /\ calls[1].path = <<"obj", "verb", "f">>
    /\ calls[2].op = "add_proc" /\ ~calls[2].ok /\ calls[2].path = <<"obj", "proc", "f", "g">>
    /\ ProcValuesIn(graph, types[PathOf(<<"obj">>)], "f") = <<[location |-> 1]>>

----------------------------------------------------------------------------
(* C12 *)

\* C12: after finalization, following parent_type from any type reaches the
\* root, and the ancestor walks of is_subtype_of, get_value,
\* get_var_declaration, get_proc, get_proc_declaration and parent_proc
\* return.  Fails for a type whose parent_type var names the type itself:
\* finalization stores the type as its own parent.
C12_WalksTerminate ==
    finalized => \A t \in NodeIds :
        /\ \E k \in ChainPlaces : Ancestor(t, k) = Some(root)
        /\ \A u \in NodeIds : is_subtype_of(Tree, t, u).returns
        /\ \A x \in VarNames : get_value(Tree, t, x).returns /\ get_var_declaration(Tree, t, x).returns
        /\ \A n \in ProcNames :
               /\ get_proc(Tree, t, n).returns
               /\ get_proc_declaration(Tree, t, n).returns
               /\ \A i \in 0..(Len(ProcValuesIn(graph, t, n)) - 1) : parent_proc(Tree, [ty |-> t, name |-> n, idx |-> i]).returns

----------------------------------------------------------------------------
(* C13 *)

\* The lexical children of t in the order in which they were created: the
\* targets of the edges from t, oldest edge first.
RECURSIVE ChildrenUpTo(_, _)
ChildrenUpTo(t, i) == IF i = 0 THEN <<>> ELSE ChildrenUpTo(t, i - 1) \o (IF graph.edges[i][1] = t THEN <<graph.edges[i][2]>> ELSE <<>>)

DeclaredChildren(t) == ChildrenUpTo(t, Len(graph.edges))

\* The downward search as claimed: the child named name, else the first
\* match of the searches from the children, earliest-declared child first.
RECURSIVE ColonSearch(_, _)
RECURSIVE ColonSearchEach(_, _)
ColonSearch(t, name) == IF child(Tree, t, name) # None THEN child(Tree, t, name) ELSE ColonSearchEach(DeclaredChildren(t), name)

ColonSearchEach(cs, name) == IF cs = <<>> THEN None ELSE IF ColonSearch(Head(cs), name) # None THEN ColonSearch(Head(cs), name) ELSE ColonSearchEach(Tail(cs), name)

\* C13: navigate(t, downward-search, name) returns child(t, name) when it
\* exists, and otherwise the first match of a depth-first search that
\* visits the lexical children of t in the order of their declaration, so
\* that of two sibling subtrees holding a node named name the
\* earlier-declared one provides the result.  Fails: the search visits the
\* latest-declared child first.
C13_DownwardSearchOrder == \A t \in NodeIds, name \in NavNames : navigate(Tree, t, "Colon", name) = ColonSearch(t, name)

----------------------------------------------------------------------------
(* C14 *)

Qualifiers == {"global", "static", "tmp", "const"}

\* The segments of a call's path after its first keyword.
AfterKeyword(c) == SubSeq(c.path, FirstDecl(c.path) + 1, Len(c.path))

\* How many qualifiers follow the keyword before the first other segment.
LeadingQualifiers(a) == Least({i \in 1..Len(a) : a[i] \notin Qualifiers}) - 1

\* A successful add_entry or add_var that registers n on T through the var
\* header: a segment that is not a qualifier follows the keyword.
RegistersByHeader(c, T, n) ==
    /\ c.op \in {"add_entry", "add_var"}
    /\ c.ok
    /\ ThroughHeader(c)
    /\ \E i \in 1..Len(AfterKeyword(c)) : AfterKeyword(c)[i] \notin Qualifiers
    /\ VarType(c) = T
    /\ VarName(c) = n

\* The declaration such a call states: the flags of its qualifiers, the
\* type path between them and the name, a list when the call has a suffix
\* with dimensions, and the location of the call.
DeclarationOf(c) ==
    LET a == AfterKeyword(c)
        q == {a[i] : i \in 1..LeadingQualifiers(a)}
    IN  Some([var_type |-> [is_static |-> q \cap {"global", "static"} # {}, is_const |-> "const" \in q, is_tmp |-> "tmp" \in q,
                            type_path |-> (IF c.suffix = <<>> THEN <<>> ELSE <<"list">>) \o SubSeq(a, LeadingQualifiers(a) + 1, Len(a) - 1)],
              location |-> c.location])

\* The calls that registered n on T through the header.
HeaderCalls(T, n) == {k \in 1..Len(calls) : RegistersByHeader(calls[k], T, n)}

\* The slot n of type T carries a declaration.
CarriesDeclaration(T, n) == map_has(Node(graph, TypeNode(T)).vars, n) /\ map_get(Node(graph, TypeNode(T)).vars, n)[1].declaration # None

DeclaredNames == {"x", "tmp"}

\* C14: after any sequence of add_entry and add_var calls the slot n of type
\* T carries a declaration if and only if one of the calls registered n on
\* T through the var header, and the declaration is that of the first such
\* call, whatever the order of header and header-less calls.  Fails when a
\* header-less add_var comes first: the header call that follows finds the
\* slot and attaches nothing.
C14_DeclarationFromFirstHeader ==
    \A T \in Registered, n \in DeclaredNames :
        /\ CarriesDeclaration(T, n) <=> HeaderCalls(T, n) # {}
        /\ HeaderCalls(T, n) # {} => map_get(Node(graph, TypeNode(T)).vars, n)[1].declaration = DeclarationOf(calls[Least(HeaderCalls(T, n))])

----------------------------------------------------------------------------
(* C15 *)

SegmentNames == {"obj", "item", "list", "x"}

\* The sequences of at most n segments.
RECURSIVE SegmentSeqs(_)
SegmentSeqs(n) == IF n = 0 THEN {<<>>} ELSE SegmentSeqs(n - 1) \cup {Append(q, name) : q \in {r \in SegmentSeqs(n - 1) : Len(r) = n - 1}, name \in SegmentNames}

\* The first j segments name a type, each a child of the one before.
Resolves(segs, j) == j = 0 \/ PathOf(SubSeq(segs, 1, j)) \in Registered

\* How many leading segments resolve.
Deepest(segs) == CHOOSE j \in 0..Len(segs) : Resolves(segs, j) /\ \A k \in (j + 1)..Len(segs) : ~Resolves(segs, k)

\* The lookup as claimed: exact when every segment resolves, and the
\* deepest node reached either way.
ApproxByChildren(segs) == [exact |-> Deepest(segs) = Len(segs), ty |-> TypeNode(PathOf(SubSeq(segs, 1, Deepest(segs))))]

\* The first segment is list and /list is declared.
UnderList(segs) == segs # <<>> /\ segs[1] = "list" /\ PathOf(<<"list">>) \in Registered

\* C15 as stated: type_by_path_approx follows the segments child by child,
\* for every sequence of segments, and type_by_path of the segments of a
\* registered path is find of the path.  The code ends a lookup whose
\* first segment is list at /list.
C15_Original ==
    /\ \A segs \in SegmentSeqs(MaxSegments) :
           /\ type_by_path_approx(Tree, segs) = ApproxByChildren(segs)
           /\ type_by_path(Tree, segs) = IF ApproxByChildren(segs).exact THEN Some(ApproxByChildren(segs).ty) ELSE None
    /\ \A p \in Registered : type_by_path(Tree, SegmentsOf(p)) = find(Tree, p)

\* C15, amended: when the first segment is list and /list is declared,
\* type_by_path_approx returns (true, /list) whatever segments follow;
\* otherwise it returns (true, n) exactly when every segment names a child
\* of the node reached so far, n being the last node reached, and
\* (false, m) with m the deepest node reached otherwise.  type_by_path
\* returns the node of a true result and nothing otherwise, so that for a
\* registered path p it returns find(p), and find(/list) when p is under
\* /list.
C15_TypeByPath ==
    /\ \A segs \in SegmentSeqs(MaxSegments) :
           LET expected == IF UnderList(segs) THEN [exact |-> TRUE, ty |-> types[PathOf(<<"list">>)]] ELSE ApproxByChildren(segs)
           IN  /\ type_by_path_approx(Tree, segs) = expected
               /\ type_by_path(Tree, segs) = IF expected.exact THEN Some(expected.ty) ELSE None
    /\ \A p \in Registered : type_by_path(Tree, SegmentsOf(p)) = find(Tree, IF UnderList(SegmentsOf(p)) THEN PathOf(<<"list">>) ELSE p)

\* /list/x, /obj/list/x and /obj/item are declared: the lookup of list, x
\* ends at /list, that of obj, list, x reaches /obj/list/x, and that of obj,
\* item, x stops, inexact, at /obj/item.
C15_Witness ==
    /\ {PathOf(<<"list", "x">>), PathOf(<<"obj", "list", "x">>), PathOf(<<"obj", "item">>)} \subseteq Registered
    /\ type_by_path_approx(Tree, <<"list", "x">>) = [exact |-> TRUE, ty |-> types[PathOf(<<"list">>)]]
    /\ type_by_path(Tree, <<"obj", "list", "x">>) = Some(types[PathOf(<<"obj", "list", "x">>)])
    /\ type_by_path_approx(Tree, <<"obj", "item", "x">>) = [exact |-> FALSE, ty |-> types[PathOf(<<"obj", "item">>)]]
    /\ type_by_path(Tree, <<"obj", "item", "x">>) = None

====
